---- MODULE Spec2Model ----
(***************************************************************************)
(* AdversarialTrainer (src/generative/engines/trainer.py): one training    *)
(* iteration of a generator/discriminator pair (_iteration) and the        *)
(* checkpoint snapshot (get_state).                                        *)
(*                                                                         *)
(* _iteration is modelled statement by statement: pc names the statement   *)
(* that runs next, so that every event firing is a point at which the      *)
(* state can be observed.  Collaborators (prepare_batch, inferers, loss    *)
(* functions, optimizers, scalers) are modelled by what the trainer asks   *)
(* of them; the values they return are drawn from small sets.              *)
(***************************************************************************)
EXTENDS Integers, Sequences, FiniteSets, TLC

\* ---------------------------------------------------------------- bounds
\* _iteration calls made in one behaviour
MaxIter == 2
\* every scalar loss returned by a loss function lies in 0..MaxLoss
MaxLoss == 1
\* distinct batches the data loader can deliver
NumBatches == 2

VARIABLES
    amp,                \* self.amp (constructor argument)
    optim_set_to_none,  \* self.optim_set_to_none
    g_scaler,           \* self.g_scaler: NoScaler or a GradScaler
    d_scaler,           \* self.d_scaler
    g_loss_has_sd,      \* callable(getattr(self.g_loss_function, "state_dict", None))
    d_loss_has_sd,      \* callable(getattr(self.d_loss_function, "state_dict", None))
    g_training,         \* g_network.training
    d_training,         \* d_network.training
    g_grad,             \* gradients accumulated on the generator's parameters
    d_grad,             \* gradients accumulated on the discriminator's parameters
    g_steps,            \* steps requested of g_optimizer (directly or through g_scaler.step)
    d_steps,            \* steps requested of d_optimizer (directly or through d_scaler.step)
    pc,                 \* the statement of _iteration that runs next, "idle" outside a call
    batchdata,          \* the batchdata argument of the current call
    inputs,             \* local: inputs unpacked from the prepared batch
    targets,            \* local: targets unpacked from the prepared batch
    output,             \* engine.state.output
    n_calls,            \* _iteration calls begun so far
    trace,              \* collaborator calls and events of the current call, in order
    entry,              \* optimizer step counts when the current call began
    result,             \* how the last _iteration call ended
    ret,                \* the value the last _iteration call returned
    returned_keys,      \* mode, batch and key set of the returned records a caller noted
    \* The last get_state call since the last _iteration call began:
    gs_args,            \* its arguments
    gs_result,          \* how it ended
    snapshot,           \* the mapping it returned
    warnings            \* the warnings it emitted, in order

config == <<amp, optim_set_to_none, g_scaler, d_scaler, g_loss_has_sd, d_loss_has_sd>>
nets == <<g_training, d_training, g_grad, d_grad, g_steps, d_steps>>
\* what a statement in the middle of _iteration never assigns
frame == <<batchdata, inputs, targets, n_calls, entry, result, ret, returned_keys>>
export == <<gs_args, gs_result, snapshot, warnings>>
vars == <<config, nets, frame, pc, output, trace, export>>

\* ------------------------------------------------------------ value space
\* batchdata is None
NoBatch == 0
Batches == 1..NumBatches
Losses == 0..MaxLoss

\* self.g_scaler / self.d_scaler when amp is off
NoScaler == [absent |-> TRUE]
\* torch.cuda.amp.GradScaler(): the number of update() calls it has seen
NewScaler == [updates |-> 0]

\* a mapping with no key (a dict literal {}; also engine.state.output before the first iteration)
EmptyDict == [k \in {} |-> 0]

\* d[k] = v
Put(d, k, v) == [x \in DOMAIN d \cup {k} |-> IF x = k THEN v ELSE d[x]]

\* A tensor object is identified by the call that created it.
Tensor(by, site, n) == [by |-> by, site |-> site, n |-> n]

\* The tensors prepare_batch makes of batch b in the n-th call.
BatchTensor(part, n, b) == [by |-> "prepare_batch", site |-> part, n |-> n, batch |-> b]

\* no gradient has been computed yet: every parameter's .grad is None
NoGrad == [isNone |-> TRUE, acc |-> {}]

\* local variables outside a call
NoLocal == [unset |-> TRUE]

Call(name) == [kind |-> "call", name |-> name]
Event(name) == [kind |-> "event", name |-> name]

\* inferer(x, network, ...): a call of an inference strategy, with the tensor it is
\* given and whether that tensor was detached from the graph first
Infer(inferer, network, x, detached) ==
    [kind |-> "call", name |-> inferer, network |-> network, input |-> x,
     detached |-> detached]

\* the names of the events in a trace, in firing order
RECURSIVE Events(_)
Events(t) ==
    IF t = <<>> THEN <<>>
    ELSE IF Head(t).kind = "event" THEN <<Head(t).name>> \o Events(Tail(t))
    ELSE Events(Tail(t))

\* the names of the collaborator calls in a trace, in call order
RECURSIVE Calls(_)
Calls(t) ==
    IF t = <<>> THEN <<>>
    ELSE IF Head(t).kind = "call" THEN <<Head(t).name>> \o Calls(Tail(t))
    ELSE Calls(Tail(t))

\* ------------------------------------------------------------ construction
\* __init__: the scalers exist exactly when amp is on.
Init ==
    /\ amp \in BOOLEAN
    /\ optim_set_to_none \in BOOLEAN
    /\ g_scaler = IF amp THEN NewScaler ELSE NoScaler
    /\ d_scaler = IF amp THEN NewScaler ELSE NoScaler
    /\ g_loss_has_sd \in BOOLEAN
    /\ d_loss_has_sd \in BOOLEAN
    /\ g_training \in BOOLEAN
    /\ d_training \in BOOLEAN
    /\ g_grad = NoGrad
    /\ d_grad = NoGrad
    /\ g_steps = 0
    /\ d_steps = 0
    /\ pc = "idle"
    /\ batchdata = NoBatch
    /\ inputs = NoLocal
    /\ targets = NoLocal
    /\ output = EmptyDict
    /\ n_calls = 0
    /\ trace = <<>>
    /\ entry = [g_steps |-> 0, d_steps |-> 0]
    /\ result = "none"
    /\ ret = EmptyDict
    /\ returned_keys = {}
    /\ gs_args = [called |-> FALSE]
    /\ gs_result = "none"
    /\ snapshot = EmptyDict
    /\ warnings = <<>>

\* no get_state call is on record
ExportCleared ==
    /\ gs_args' = [called |-> FALSE]
    /\ gs_result' = "none"
    /\ snapshot' = EmptyDict
    /\ warnings' = <<>>

\* ------------------------------------------------------------- _iteration
\* engine.fire_event(ev): the observers run before the call returns.
Fire(at, ev, next) ==
    /\ pc = at
    /\ trace' = Append(trace, Event(ev))
    /\ pc' = next
    /\ UNCHANGED <<config, nets, export, frame, output>>

\* if engine.amp and engine.g_scaler is not None
UseGScaler == amp /\ g_scaler # NoScaler

\* if engine.amp and engine.d_scaler is not None
UseDScaler == amp /\ d_scaler # NoScaler

\* Faulty variant of IterationNoBatch: the output record is reset before the batch is
\* validated.
IterationNoBatchAfterReset ==
    /\ pc = "idle"
    /\ n_calls < MaxIter
    /\ n_calls' = n_calls + 1
    /\ batchdata' = NoBatch
    /\ trace' = <<>>
    /\ entry' = [g_steps |-> g_steps, d_steps |-> d_steps]
    /\ result' = "ValueError"
    /\ ret' = EmptyDict
    /\ output' = EmptyDict
    /\ ExportCleared
    /\ UNCHANGED <<config, nets, pc, inputs, targets, returned_keys>>

\* _iteration(engine, None): raise ValueError
IterationNoBatch ==
    /\ pc = "idle"
    /\ n_calls < MaxIter
    /\ n_calls' = n_calls + 1
    /\ batchdata' = NoBatch
    /\ trace' = <<>>
    /\ entry' = [g_steps |-> g_steps, d_steps |-> d_steps]
    /\ result' = "ValueError"
    /\ ret' = EmptyDict
    /\ ExportCleared
    /\ UNCHANGED <<config, nets, pc, inputs, targets, output, returned_keys>>

\* _iteration(engine, b) with a batch: the check of line 192 passes
IterationBegin(b) ==
    /\ pc = "idle"
    /\ n_calls < MaxIter
    /\ n_calls' = n_calls + 1
    /\ batchdata' = b
    /\ trace' = <<>>
    /\ entry' = [g_steps |-> g_steps, d_steps |-> d_steps]
    /\ result' = "running"
    /\ ret' = EmptyDict
    /\ pc' = "prepare_batch"
    /\ ExportCleared
    /\ UNCHANGED <<config, nets, inputs, targets, output, returned_keys>>

\* Faulty variant of PrepareBatch: the three entries are written into the record of the
\* previous call, whose other entries stay.
PrepareBatchIntoOldRecord ==
    /\ pc = "prepare_batch"
    /\ inputs' = BatchTensor("inputs", n_calls, batchdata)
    /\ targets' = BatchTensor("targets", n_calls, batchdata)
    /\ output' = [k \in DOMAIN output \cup {"image", "label", "reals"} |->
                    IF k = "label" THEN targets'
                    ELSE IF k \in {"image", "reals"} THEN inputs'
                    ELSE output[k]]
    /\ trace' = Append(trace, Call("prepare_batch"))
    /\ pc' = "g_train"
    /\ UNCHANGED <<config, nets, export, batchdata, n_calls, entry, result, ret, returned_keys>>

\* Faulty variant of PrepareBatch: the reals entry holds a clone of the inputs rather
\* than the inputs themselves.
PrepareBatchRealsCloned ==
    /\ pc = "prepare_batch"
    /\ inputs' = BatchTensor("inputs", n_calls, batchdata)
    /\ targets' = BatchTensor("targets", n_calls, batchdata)
    /\ output' = [k \in {"image", "label", "reals"} |->
                    IF k = "label" THEN targets'
                    ELSE IF k = "reals" THEN BatchTensor("clone", n_calls, batchdata)
                    ELSE inputs']
    /\ trace' = Append(trace, Call("prepare_batch"))
    /\ pc' = "g_train"
    /\ UNCHANGED <<config, nets, export, batchdata, n_calls, entry, result, ret, returned_keys>>

\* batch = engine.prepare_batch(...); unpack; engine.state.output = {IMAGE, LABEL, REALS}
PrepareBatch ==
    /\ pc = "prepare_batch"
    /\ inputs' = BatchTensor("inputs", n_calls, batchdata)
    /\ targets' = BatchTensor("targets", n_calls, batchdata)
    /\ output' = [k \in {"image", "label", "reals"} |->
                    IF k = "label" THEN targets' ELSE inputs']
    /\ trace' = Append(trace, Call("prepare_batch"))
    /\ pc' = "g_train"
    /\ UNCHANGED <<config, nets, export, batchdata, n_calls, entry, result, ret, returned_keys>>

\* engine.g_network.train()
GeneratorTrain ==
    /\ pc = "g_train"
    /\ g_training' = TRUE
    /\ trace' = Append(trace, Call("g_network.train"))
    /\ pc' = "g_zero_grad"
    /\ UNCHANGED <<config, export, frame, output>>
    /\ UNCHANGED <<d_training, g_grad, d_grad, g_steps, d_steps>>

\* zero_grad(set_to_none): a gradient that is None stays None
ZeroGrad(grad, set_to_none) ==
    [isNone |-> set_to_none \/ grad.isNone, acc |-> {}]

\* engine.g_optimizer.zero_grad(set_to_none=engine.optim_set_to_none)
GeneratorZeroGrad ==
    /\ pc = "g_zero_grad"
    /\ g_grad' = ZeroGrad(g_grad, optim_set_to_none)
    /\ trace' = Append(trace, Call("g_optimizer.zero_grad"))
    /\ pc' = "g_forward"
    /\ UNCHANGED <<config, export, frame, output>>
    /\ UNCHANGED <<g_training, d_training, d_grad, g_steps, d_steps>>

\* engine.state.output[FAKES] = engine.g_inferer(inputs, engine.g_network, ...);
\* engine.state.output[PRED] = engine.state.output[FAKES]
GeneratorForward ==
    /\ pc = "g_forward"
    /\ LET fakes == Tensor("g_inferer", "g_forward", n_calls)
       IN output' = Put(Put(output, "fakes", fakes), "pred", fakes)
    /\ trace' = Append(trace, Infer("g_inferer", "g_network", inputs, FALSE))
    /\ pc' = "fire_g_forward"
    /\ UNCHANGED <<config, nets, export, frame>>

FireGeneratorForwardCompleted ==
    Fire("fire_g_forward", "GENERATOR_FORWARD_COMPLETED", "gd_forward")

\* engine.state.output[FAKE_LOGITS] = engine.d_inferer(output[FAKES].float().contiguous(), engine.d_network, ...)
GeneratorDiscriminatorForward ==
    /\ pc = "gd_forward"
    /\ output' = Put(output, "fake_logits", Tensor("d_inferer", "gd_forward", n_calls))
    /\ trace' = Append(trace, Infer("d_inferer", "d_network", output["fakes"], FALSE))
    /\ pc' = "fire_gd_forward"
    /\ UNCHANGED <<config, nets, export, frame>>

FireGeneratorDiscriminatorForwardCompleted ==
    Fire("fire_gd_forward", "GENERATOR_DISCRIMINATOR_FORWARD_COMPLETED", "recon_loss")

\* engine.state.output[RECONSTRUCTION_LOSS] = engine.recon_loss_function(output[FAKES], targets).mean()
ReconstructionLoss ==
    /\ pc = "recon_loss"
    /\ \E l \in Losses : output' = Put(output, "reconstruction_loss", l)
    /\ trace' = Append(trace, Call("recon_loss_function"))
    /\ pc' = "fire_recon_loss"
    /\ UNCHANGED <<config, nets, export, frame>>

FireReconstructionLossCompleted ==
    Fire("fire_recon_loss", "RECONSTRUCTION_LOSS_COMPLETED", "g_loss")

\* engine.state.output[GENERATOR_LOSS] = engine.g_loss_function(output[FAKE_LOGITS]).mean()
GeneratorLoss ==
    /\ pc = "g_loss"
    /\ \E l \in Losses : output' = Put(output, "generator_loss", l)
    /\ trace' = Append(trace, Call("g_loss_function"))
    /\ pc' = "fire_g_loss"
    /\ UNCHANGED <<config, nets, export, frame>>

\* the last statement of _compute_generator_loss; control returns to the branch taken at line 231
FireGeneratorLossCompleted ==
    Fire("fire_g_loss", "GENERATOR_LOSS_COMPLETED",
         IF UseGScaler THEN "g_combine" ELSE "g_backward")

\* mixed precision only:
\* engine.state.output[LOSS] = output[RECONSTRUCTION_LOSS] + output[GENERATOR_LOSS]
GeneratorCombineLoss ==
    /\ pc = "g_combine"
    /\ output' = Put(output, "loss",
                     output["reconstruction_loss"] + output["generator_loss"])
    /\ pc' = "g_backward"
    /\ UNCHANGED <<config, nets, export, frame, trace>>

\* backward() of a loss adds its gradient to every parameter the loss depends on
Accumulate(grad, contribution) ==
    [isNone |-> FALSE, acc |-> grad.acc \cup {contribution}]

\* Faulty variant of GeneratorBackward: the optimizer is stepped right after the backward
\* pass, before the backward-completed event fires.
GeneratorBackwardAndStep ==
    /\ pc = "g_backward"
    /\ g_grad' = Accumulate(g_grad, <<"generator", n_calls>>)
    /\ d_grad' = Accumulate(d_grad, <<"generator", n_calls>>)
    /\ g_steps' = g_steps + 1
    /\ trace' = IF UseGScaler
                THEN trace \o <<Call("g_scaler.scale"), Call("g_backward"), Call("g_scaler.step")>>
                ELSE trace \o <<Call("g_backward"), Call("g_optimizer.step")>>
    /\ pc' = "fire_g_backward"
    /\ UNCHANGED <<config, export, frame, output>>
    /\ UNCHANGED <<g_training, d_training, d_steps>>

\* mixed precision: engine.g_scaler.scale(output[LOSS]).backward()
\* otherwise:       (output[RECONSTRUCTION_LOSS] + output[GENERATOR_LOSS]).backward()
\* The fake logits were computed by d_network on fakes that are not detached, so the
\* gradient reaches the parameters of both networks.
GeneratorBackward ==
    /\ pc = "g_backward"
    /\ g_grad' = Accumulate(g_grad, <<"generator", n_calls>>)
    /\ d_grad' = Accumulate(d_grad, <<"generator", n_calls>>)
    /\ trace' = IF UseGScaler
                THEN trace \o <<Call("g_scaler.scale"), Call("g_backward")>>
                ELSE Append(trace, Call("g_backward"))
    /\ pc' = "fire_g_backward"
    /\ UNCHANGED <<config, export, frame, output>>
    /\ UNCHANGED <<g_training, d_training, g_steps, d_steps>>

FireGeneratorBackwardCompleted ==
    Fire("fire_g_backward", "GENERATOR_BACKWARD_COMPLETED", "g_step")

\* Faulty variant of GeneratorStep: one optimizer holds the parameters of both networks,
\* so the generator's step updates the discriminator as well.
GeneratorStepBoth ==
    /\ pc = "g_step"
    /\ g_steps' = g_steps + 1
    /\ d_steps' = d_steps + 1
    /\ trace' = Append(trace, Call(IF UseGScaler THEN "g_scaler.step" ELSE "g_optimizer.step"))
    /\ pc' = IF UseGScaler THEN "g_scaler_update" ELSE "fire_g_model"
    /\ UNCHANGED <<config, export, frame, output>>
    /\ UNCHANGED <<g_training, d_training, g_grad, d_grad>>

\* Faulty variant of GeneratorStep: with mixed precision the optimizer is stepped
\* through the scaler and then once more directly.
GeneratorStepTwice ==
    /\ pc = "g_step"
    /\ g_steps' = g_steps + (IF UseGScaler THEN 2 ELSE 1)
    /\ trace' = IF UseGScaler
                THEN trace \o <<Call("g_scaler.step"), Call("g_optimizer.step")>>
                ELSE Append(trace, Call("g_optimizer.step"))
    /\ pc' = IF UseGScaler THEN "g_scaler_update" ELSE "fire_g_model"
    /\ UNCHANGED <<config, export, frame, output>>
    /\ UNCHANGED <<g_training, d_training, g_grad, d_grad, d_steps>>

\* mixed precision: engine.g_scaler.step(engine.g_optimizer)
\* otherwise:       engine.g_optimizer.step()
GeneratorStep ==
    /\ pc = "g_step"
    /\ g_steps' = g_steps + 1
    /\ trace' = Append(trace, Call(IF UseGScaler THEN "g_scaler.step" ELSE "g_optimizer.step"))
    /\ pc' = IF UseGScaler THEN "g_scaler_update" ELSE "fire_g_model"
    /\ UNCHANGED <<config, export, frame, output>>
    /\ UNCHANGED <<g_training, d_training, g_grad, d_grad, d_steps>>

\* mixed precision only: engine.g_scaler.update()
GeneratorScalerUpdate ==
    /\ pc = "g_scaler_update"
    /\ g_scaler' = [updates |-> g_scaler.updates + 1]
    /\ trace' = Append(trace, Call("g_scaler.update"))
    /\ pc' = "fire_g_model"
    /\ UNCHANGED <<nets, export, frame, output>>
    /\ UNCHANGED <<amp, optim_set_to_none, d_scaler, g_loss_has_sd, d_loss_has_sd>>

FireGeneratorModelCompleted ==
    Fire("fire_g_model", "GENERATOR_MODEL_COMPLETED", "d_train")

\* engine.d_network.train()
DiscriminatorTrain ==
    /\ pc = "d_train"
    /\ d_training' = TRUE
    /\ trace' = Append(trace, Call("d_network.train"))
    /\ pc' = "d_zero_grad"
    /\ UNCHANGED <<config, export, frame, output>>
    /\ UNCHANGED <<g_training, g_grad, d_grad, g_steps, d_steps>>

\* Faulty variant of DiscriminatorZeroGrad: the generator's optimizer is asked to zero
\* its gradients a second time, and the discriminator's gradients are left as they are.
DiscriminatorZeroGradOfGenerator ==
    /\ pc = "d_zero_grad"
    /\ g_grad' = ZeroGrad(g_grad, optim_set_to_none)
    /\ trace' = Append(trace, Call("g_optimizer.zero_grad"))
    /\ pc' = "d_reals_forward"
    /\ UNCHANGED <<config, export, frame, output>>
    /\ UNCHANGED <<g_training, d_training, d_grad, g_steps, d_steps>>

\* engine.d_network.zero_grad(set_to_none=engine.optim_set_to_none)
DiscriminatorZeroGrad ==
    /\ pc = "d_zero_grad"
    /\ d_grad' = ZeroGrad(d_grad, optim_set_to_none)
    /\ trace' = Append(trace, Call("d_network.zero_grad"))
    /\ pc' = "d_reals_forward"
    /\ UNCHANGED <<config, export, frame, output>>
    /\ UNCHANGED <<g_training, d_training, g_grad, g_steps, d_steps>>

\* engine.state.output[REAL_LOGITS] = engine.d_inferer(output[REALS].contiguous().detach(), engine.d_network, ...)
DiscriminatorRealsForward ==
    /\ pc = "d_reals_forward"
    /\ output' = Put(output, "real_logits", Tensor("d_inferer", "d_reals_forward", n_calls))
    /\ trace' = Append(trace, Infer("d_inferer", "d_network", output["reals"], TRUE))
    /\ pc' = "fire_d_reals"
    /\ UNCHANGED <<config, nets, export, frame>>

FireDiscriminatorRealsForwardCompleted ==
    Fire("fire_d_reals", "DISCRIMINATOR_REALS_FORWARD_COMPLETED", "d_fakes_forward")

\* Faulty variant of DiscriminatorFakesForward: the fakes are generated anew with the
\* generator that has just been stepped.
DiscriminatorFakesForwardRegenerated ==
    /\ pc = "d_fakes_forward"
    /\ output' = Put(output, "fake_logits", Tensor("d_inferer", "d_fakes_forward", n_calls))
    /\ trace' = trace \o
                  <<Infer("g_inferer", "g_network", inputs, FALSE),
                    Infer("d_inferer", "d_network",
                          Tensor("g_inferer", "d_fakes_forward", n_calls), TRUE)>>
    /\ pc' = "fire_d_fakes"
    /\ UNCHANGED <<config, nets, export, frame>>

\* Faulty variant of DiscriminatorFakesForward: the detached copy of the fakes is stored
\* back under FAKES before the discriminator sees it.
DiscriminatorFakesForwardReplacing ==
    /\ pc = "d_fakes_forward"
    /\ output' = Put(Put(output, "fakes", Tensor("detach", "d_fakes_forward", n_calls)),
                     "fake_logits", Tensor("d_inferer", "d_fakes_forward", n_calls))
    /\ trace' = Append(trace, Infer("d_inferer", "d_network", output'["fakes"], TRUE))
    /\ pc' = "fire_d_fakes"
    /\ UNCHANGED <<config, nets, export, frame>>

\* engine.state.output[FAKE_LOGITS] = engine.d_inferer(output[FAKES].contiguous().detach(), engine.d_network, ...)
DiscriminatorFakesForward ==
    /\ pc = "d_fakes_forward"
    /\ output' = Put(output, "fake_logits", Tensor("d_inferer", "d_fakes_forward", n_calls))
    /\ trace' = Append(trace, Infer("d_inferer", "d_network", output["fakes"], TRUE))
    /\ pc' = "fire_d_fakes"
    /\ UNCHANGED <<config, nets, export, frame>>

FireDiscriminatorFakesForwardCompleted ==
    Fire("fire_d_fakes", "DISCRIMINATOR_FAKES_FORWARD_COMPLETED", "d_loss")

\* engine.state.output[DISCRIMINATOR_LOSS] = engine.d_loss_function(output[REAL_LOGITS], output[FAKE_LOGITS]).mean()
DiscriminatorLoss ==
    /\ pc = "d_loss"
    /\ \E l \in Losses : output' = Put(output, "discriminator_loss", l)
    /\ trace' = Append(trace, Call("d_loss_function"))
    /\ pc' = "fire_d_loss"
    /\ UNCHANGED <<config, nets, export, frame>>

\* the last statement of _compute_discriminator_loss
FireDiscriminatorLossCompleted ==
    Fire("fire_d_loss", "DISCRIMINATOR_LOSS_COMPLETED", "d_backward")

\* Faulty variant of DiscriminatorBackward: the fake logits were computed on fakes that
\* are not detached, so the discriminator's loss reaches the generator's parameters too.
DiscriminatorBackwardThroughFakes ==
    /\ pc = "d_backward"
    /\ d_grad' = Accumulate(d_grad, <<"discriminator", n_calls>>)
    /\ g_grad' = Accumulate(g_grad, <<"discriminator", n_calls>>)
    /\ trace' = IF UseDScaler
                THEN trace \o <<Call("d_scaler.scale"), Call("d_backward")>>
                ELSE Append(trace, Call("d_backward"))
    /\ pc' = IF UseDScaler THEN "fire_d_backward" ELSE "d_step"
    /\ UNCHANGED <<config, export, frame, output>>
    /\ UNCHANGED <<g_training, d_training, g_steps, d_steps>>

\* Faulty variant of DiscriminatorBackward: the backward-completed event follows in
\* both branches, as it does in the generator phase.
DiscriminatorBackwardThenEvent ==
    /\ pc = "d_backward"
    /\ d_grad' = Accumulate(d_grad, <<"discriminator", n_calls>>)
    /\ trace' = IF UseDScaler
                THEN trace \o <<Call("d_scaler.scale"), Call("d_backward")>>
                ELSE Append(trace, Call("d_backward"))
    /\ pc' = "fire_d_backward"
    /\ UNCHANGED <<config, export, frame, output>>
    /\ UNCHANGED <<g_training, d_training, g_grad, g_steps, d_steps>>

\* mixed precision: engine.d_scaler.scale(output[DISCRIMINATOR_LOSS]).backward()
\* otherwise:       output[DISCRIMINATOR_LOSS].backward()
\* Both logits were computed on detached samples: only d_network's parameters are reached.
DiscriminatorBackward ==
    /\ pc = "d_backward"
    /\ d_grad' = Accumulate(d_grad, <<"discriminator", n_calls>>)
    /\ trace' = IF UseDScaler
                THEN trace \o <<Call("d_scaler.scale"), Call("d_backward")>>
                ELSE Append(trace, Call("d_backward"))
    /\ pc' = IF UseDScaler THEN "fire_d_backward" ELSE "d_step"
    /\ UNCHANGED <<config, export, frame, output>>
    /\ UNCHANGED <<g_training, d_training, g_grad, g_steps, d_steps>>

\* mixed precision only
FireDiscriminatorBackwardCompleted ==
    Fire("fire_d_backward", "DISCRIMINATOR_BACKWARD_COMPLETED", "d_step")

\* mixed precision: engine.d_scaler.step(engine.d_optimizer)
\* otherwise:       engine.d_optimizer.step()
DiscriminatorStep ==
    /\ pc = "d_step"
    /\ d_steps' = d_steps + 1
    /\ trace' = Append(trace, Call(IF UseDScaler THEN "d_scaler.step" ELSE "d_optimizer.step"))
    /\ pc' = IF UseDScaler THEN "d_scaler_update" ELSE "return"
    /\ UNCHANGED <<config, export, frame, output>>
    /\ UNCHANGED <<g_training, d_training, g_grad, d_grad, g_steps>>

\* mixed precision only: engine.d_scaler.update()
DiscriminatorScalerUpdate ==
    /\ pc = "d_scaler_update"
    /\ d_scaler' = [updates |-> d_scaler.updates + 1]
    /\ trace' = Append(trace, Call("d_scaler.update"))
    /\ pc' = "return"
    /\ UNCHANGED <<nets, export, frame, output>>
    /\ UNCHANGED <<amp, optim_set_to_none, g_scaler, g_loss_has_sd, d_loss_has_sd>>

\* return engine.state.output
Return ==
    /\ pc = "return"
    /\ ret' = output
    /\ result' = "returned"
    /\ inputs' = NoLocal
    /\ targets' = NoLocal
    /\ pc' = "idle"
    /\ UNCHANGED <<config, nets, export, batchdata, n_calls, entry, output, trace>>
    /\ UNCHANGED returned_keys

\* Faulty variant of Raise: the failure is caught to clear the half-filled output record
\* and raised again.
RaiseAfterCleanup ==
    /\ pc \notin {"idle", "g_combine", "return"}
    /\ result' = "raised"
    /\ inputs' = NoLocal
    /\ targets' = NoLocal
    /\ output' = EmptyDict
    /\ pc' = "idle"
    /\ UNCHANGED <<config, nets, export, batchdata, n_calls, entry, trace, ret>>
    /\ UNCHANGED returned_keys

\* a collaborator call of the statement at pc raises: nothing in _iteration catches it
Raise ==
    /\ pc \notin {"idle", "g_combine", "return"}
    /\ result' = "raised"
    /\ inputs' = NoLocal
    /\ targets' = NoLocal
    /\ pc' = "idle"
    /\ UNCHANGED <<config, nets, export, batchdata, n_calls, entry, output, trace, ret>>
    /\ UNCHANGED returned_keys

Iteration ==
    \/ IterationNoBatch
    \/ \E b \in Batches : IterationBegin(b)
    \/ PrepareBatch
    \/ GeneratorTrain
    \/ GeneratorZeroGrad
    \/ GeneratorForward
    \/ FireGeneratorForwardCompleted
    \/ GeneratorDiscriminatorForward
    \/ FireGeneratorDiscriminatorForwardCompleted
    \/ ReconstructionLoss
    \/ FireReconstructionLossCompleted
    \/ GeneratorLoss
    \/ FireGeneratorLossCompleted
    \/ GeneratorCombineLoss
    \/ GeneratorBackward
    \/ FireGeneratorBackwardCompleted
    \/ GeneratorStep
    \/ GeneratorScalerUpdate
    \/ FireGeneratorModelCompleted
    \/ DiscriminatorTrain
    \/ DiscriminatorZeroGrad
    \/ DiscriminatorRealsForward
    \/ FireDiscriminatorRealsForwardCompleted
    \/ DiscriminatorFakesForward
    \/ FireDiscriminatorFakesForwardCompleted
    \/ DiscriminatorLoss
    \/ FireDiscriminatorLossCompleted
    \/ DiscriminatorBackward
    \/ FireDiscriminatorBackwardCompleted
    \/ DiscriminatorStep
    \/ DiscriminatorScalerUpdate
    \/ Return
    \/ Raise

\* -------------------------------------------------------------- get_state
\* The nine include_* switches, named by the key each one controls
\* (include_generator_optimiser controls "generator_optimizer", and so on).
Switches ==
    {"engine", "generator", "generator_optimizer", "generator_scaler", "generator_loss",
     "discriminator", "discriminator_optimizer", "discriminator_scaler", "discriminator_loss"}

\* the default values of the switches: everything but the two scalers
DefaultSwitches == Switches \ {"generator_scaler", "discriminator_scaler"}

\* additional_states=None
NoAdditional == [given |-> FALSE]
Additional(d) == [given |-> TRUE, states |-> d]

\* x.state_dict(): the persisted state of collaborator x
StateDict(x) == [state_dict_of |-> x]

Warning(switch, kind) == [switch |-> switch, kind |-> kind]

\* Faulty variant of IncludeAlways: a switch that is off is skipped without a warning.
IncludeAlwaysSilent(acc, key, on, value) ==
    IF on THEN [acc EXCEPT !.sd = Put(acc.sd, key, value)] ELSE acc

\* if include_x: state_dict[key] = x.state_dict()  else: warnings.warn(...)
IncludeAlways(acc, key, on, value) ==
    IF on
    THEN [acc EXCEPT !.sd = Put(acc.sd, key, value)]
    ELSE [acc EXCEPT !.w = Append(acc.w, Warning(key, "not_included"))]

\* Faulty variant of IncludeScaler: state_dict() is called on the scaler without the
\* test for None, which raises AttributeError when there is no scaler.
IncludeScalerUnchecked(acc, key, on, scaler) ==
    IF on
    THEN IF scaler # NoScaler
         THEN [acc EXCEPT !.sd = Put(acc.sd, key, StateDict(key))]
         ELSE [acc EXCEPT !.raised = TRUE]
    ELSE [acc EXCEPT !.w = Append(acc.w, Warning(key, "not_included"))]

\* if include_x_scaler: (if scaler is not None: include, else: warn)  else: warn
IncludeScaler(acc, key, on, scaler) ==
    IF on
    THEN IF scaler # NoScaler
         THEN [acc EXCEPT !.sd = Put(acc.sd, key, StateDict(key))]
         ELSE [acc EXCEPT !.w = Append(acc.w, Warning(key, "amp_disabled"))]
    ELSE [acc EXCEPT !.w = Append(acc.w, Warning(key, "not_included"))]

\* Faulty variant of IncludeLoss: a loss function without a state_dict method is
\* skipped without a warning.
IncludeLossSilent(acc, key, on, has_state_dict) ==
    IF on
    THEN IF has_state_dict
         THEN [acc EXCEPT !.sd = Put(acc.sd, key, StateDict(key))]
         ELSE acc
    ELSE [acc EXCEPT !.w = Append(acc.w, Warning(key, "not_included"))]

\* if include_x_loss: (if callable(getattr(loss, "state_dict", None)): include, else: warn)
\* else: warn
IncludeLoss(acc, key, on, has_state_dict) ==
    IF on
    THEN IF has_state_dict
         THEN [acc EXCEPT !.sd = Put(acc.sd, key, StateDict(key))]
         ELSE [acc EXCEPT !.w = Append(acc.w, Warning(key, "no_state_dict"))]
    ELSE [acc EXCEPT !.w = Append(acc.w, Warning(key, "not_included"))]

\* Faulty variant of Update: a key that is already present keeps its value.
UpdateKeepExisting(d, other) ==
    [k \in DOMAIN d \cup DOMAIN other |-> IF k \in DOMAIN d THEN d[k] ELSE other[k]]

\* state_dict.update(other)
Update(d, other) ==
    [k \in DOMAIN d \cup DOMAIN other |-> IF k \in DOMAIN other THEN other[k] ELSE d[k]]

\* if additional_states is not None: state_dict.update(additional_states)
MergeAdditional(acc, additional) ==
    IF additional.given THEN [acc EXCEPT !.sd = Update(acc.sd, additional.states)] ELSE acc

\* The body of get_state, section by section in source order.
GetStateResult(flags, additional) ==
    LET s0 == [sd |-> EmptyDict, w |-> <<>>, raised |-> FALSE]
        s1 == IncludeAlways(s0, "engine", "engine" \in flags,
                            StateDict("engine"))
        s2 == IncludeAlways(s1, "generator", "generator" \in flags,
                            StateDict("generator"))
        s3 == IncludeAlways(s2, "generator_optimizer", "generator_optimizer" \in flags,
                            StateDict("generator_optimizer"))
        s4 == IncludeScaler(s3, "generator_scaler", "generator_scaler" \in flags, g_scaler)
        s5 == IncludeLoss(s4, "generator_loss", "generator_loss" \in flags, g_loss_has_sd)
        s6 == IncludeAlways(s5, "discriminator", "discriminator" \in flags,
                            StateDict("discriminator"))
        s7 == IncludeAlways(s6, "discriminator_optimizer", "discriminator_optimizer" \in flags,
                            StateDict("discriminator_optimizer"))
        s8 == IncludeScaler(s7, "discriminator_scaler", "discriminator_scaler" \in flags,
                            d_scaler)
        s9 == IncludeLoss(s8, "discriminator_loss", "discriminator_loss" \in flags,
                          d_loss_has_sd)
    IN MergeAdditional(s9, additional)

\* get_state(include_... = (key \in flags), additional_states = additional)
GetState(flags, additional) ==
    LET r == GetStateResult(flags, additional)
    IN /\ gs_args' = [called |-> TRUE, flags |-> flags, additional |-> additional]
       /\ gs_result' = IF r.raised THEN "AttributeError" ELSE "returned"
       /\ snapshot' = IF r.raised THEN EmptyDict ELSE r.sd
       /\ warnings' = r.w
       /\ UNCHANGED <<config, nets, frame, pc, output, trace>>

\* the switch settings a checkpoint handler passes during training
CheckpointFlags == {DefaultSwitches, Switches}

\* caller-supplied sub-states: one that is no built-in key, and two that are
CallerKeys == {"extra", "generator", "discriminator_scaler"}
CallerValue(k) == [supplied_by |-> "caller", for |-> k]
AdditionalChoices ==
    {NoAdditional} \cup {Additional([k \in ks |-> CallerValue(k)]) : ks \in SUBSET CallerKeys}

\* ------------------------------------------------------------- a new trainer
\* The caller of _iteration notes the precision mode, the batch and the keys of the
\* record it has just been returned.
NoteReturned ==
    /\ pc = "idle"
    /\ result = "returned"
    /\ returned_keys' = returned_keys \cup
            {[amp |-> amp, batch |-> batchdata, keys |-> DOMAIN ret]}
    /\ UNCHANGED <<config, nets, export, pc, output, trace>>
    /\ UNCHANGED <<batchdata, inputs, targets, n_calls, entry, result, ret>>

\* AdversarialTrainer(...): a newly constructed trainer replaces the current one
Construct ==
    /\ pc = "idle"
    /\ amp' \in BOOLEAN
    /\ optim_set_to_none' \in BOOLEAN
    /\ g_scaler' = IF amp' THEN NewScaler ELSE NoScaler
    /\ d_scaler' = IF amp' THEN NewScaler ELSE NoScaler
    /\ g_loss_has_sd' \in BOOLEAN
    /\ d_loss_has_sd' \in BOOLEAN
    /\ g_training' \in BOOLEAN
    /\ d_training' \in BOOLEAN
    /\ g_grad' = NoGrad
    /\ d_grad' = NoGrad
    /\ g_steps' = 0
    /\ d_steps' = 0
    /\ batchdata' = NoBatch
    /\ output' = EmptyDict
    /\ n_calls' = 0
    /\ trace' = <<>>
    /\ entry' = [g_steps |-> 0, d_steps |-> 0]
    /\ result' = "none"
    /\ ret' = EmptyDict
    /\ ExportCleared
    /\ UNCHANGED <<pc, inputs, targets, returned_keys>>

\* ------------------------------------------------------------ specifications
\* One trainer: iterations, with checkpoints taken between them.
Next ==
    \/ Iteration
    \/ pc = "idle" /\ \E flags \in CheckpointFlags : GetState(flags, NoAdditional)

Spec == Init /\ [][Next]_vars

\* One get_state call on a newly constructed trainer, over all its arguments.
NextState ==
    /\ ~gs_args.called
    /\ \E flags \in SUBSET Switches, additional \in AdditionalChoices :
            GetState(flags, additional)

SpecState == Init /\ [][NextState]_vars

\* Trainers of both precision modes, one after the other.
NextModes == Iteration \/ NoteReturned \/ Construct

SpecModes == Init /\ [][NextModes]_vars

\* ================================================================ properties
\* AdversarialIterationEvents, in the order _iteration fires them
IterationEvents ==
    <<"GENERATOR_FORWARD_COMPLETED",
      "GENERATOR_DISCRIMINATOR_FORWARD_COMPLETED",
      "RECONSTRUCTION_LOSS_COMPLETED",
      "GENERATOR_LOSS_COMPLETED",
      "GENERATOR_BACKWARD_COMPLETED",
      "GENERATOR_MODEL_COMPLETED",
      "DISCRIMINATOR_REALS_FORWARD_COMPLETED",
      "DISCRIMINATOR_FAKES_FORWARD_COMPLETED",
      "DISCRIMINATOR_LOSS_COMPLETED",
      "DISCRIMINATOR_BACKWARD_COMPLETED">>

IsPrefix(s, t) == Len(s) <= Len(t) /\ SubSeq(t, 1, Len(s)) = s

\* the events of a complete iteration: DISCRIMINATOR_BACKWARD_COMPLETED only with mixed precision
ExpectedEvents(mixed) ==
    IF mixed THEN IterationEvents ELSE SubSeq(IterationEvents, 1, Len(IterationEvents) - 1)

\* C1: in either precision mode the events of an iteration are fired in the fixed
\* order of IterationEvents, each at most once while the iteration runs and each
\* exactly once by the time it returns, except DISCRIMINATOR_BACKWARD_COMPLETED, which
\* is fired (once, last) if and only if mixed precision is enabled.
C1_EventOrder ==
    /\ IsPrefix(Events(trace), ExpectedEvents(amp))
    /\ result = "returned" => Events(trace) = ExpectedEvents(amp)

\* C1 witness: a mixed-precision iteration has returned, its last event being
\* DISCRIMINATOR_BACKWARD_COMPLETED.
C1_Witness ==
    /\ result = "returned"
    /\ amp
    /\ Len(Events(trace)) = 10
    /\ Events(trace)[10] = "DISCRIMINATOR_BACKWARD_COMPLETED"

\* C2: a call of _iteration with batchdata None ends in ValueError without calling any
\* collaborator or firing any event, and leaves engine.state.output, the networks, the
\* optimizers and the scalers exactly as they were.
C2_NoBatchNoEffect ==
    [][(n_calls' = n_calls + 1 /\ batchdata' = NoBatch)
        => /\ result' = "ValueError"
           /\ pc' = "idle"
           /\ trace' = <<>>
           /\ output' = output
           /\ UNCHANGED <<config, nets>>]_vars

\* C2 witness: a call with None has raised while engine.state.output held the record
\* of an earlier iteration.
C2_Witness ==
    /\ result = "ValueError"
    /\ batchdata = NoBatch
    /\ "fakes" \in DOMAIN output

\* C3: for the same batch, the record returned with mixed precision enabled and the
\* record returned with it disabled have the same set of keys.
C3_SameKeysBothModes ==
    \A r1, r2 \in returned_keys : r1.batch = r2.batch => r1.keys = r2.keys

\* the keys the docstring of _iteration lists for the returned dictionary
DocumentedKeys ==
    {"image", "label", "pred", "loss", "reals", "fakes", "real_logits", "fake_logits",
     "reconstruction_loss", "generator_loss", "discriminator_loss"}

\* C4: in both precision modes the record returned by a successful iteration contains
\* every documented key.
C4_AllDocumentedKeys ==
    result = "returned" => DocumentedKeys \subseteq DOMAIN ret

\* the switches whose underlying state does not exist: the scalers without mixed
\* precision, a loss function without a state_dict method
AbsentState ==
    (IF g_scaler = NoScaler THEN {"generator_scaler"} ELSE {})
    \cup (IF d_scaler = NoScaler THEN {"discriminator_scaler"} ELSE {})
    \cup (IF g_loss_has_sd THEN {} ELSE {"generator_loss"})
    \cup (IF d_loss_has_sd THEN {} ELSE {"discriminator_loss"})

\* get_state was called with exactly switch k off and no additional_states
SingleSwitchOff(k) ==
    /\ gs_args.called
    /\ gs_args.flags = Switches \ {k}
    /\ ~gs_args.additional.given

\* the warnings emitted for switch k
WarningsFor(k) == {i \in 1..Len(warnings) : warnings[i].switch = k}

\* C5 (as stated): with any single switch off and the others on, the snapshot misses
\* exactly that switch's key and exactly one warning is emitted, whatever the precision
\* mode and whether or not the loss functions have a state_dict.
C5_SingleSwitchOff ==
    \A k \in Switches :
        SingleSwitchOff(k) => /\ DOMAIN snapshot = Switches \ {k}
                              /\ Len(warnings) = 1

\* C5 (amended): with any single switch off and the others on, the snapshot misses that
\* switch's key and the key of every switch whose underlying state is absent, and
\* nothing else, with exactly one warning for each missing key; so with mixed precision
\* enabled and both loss functions having a state_dict it misses exactly that key and
\* emits exactly one warning.
C5_SingleSwitchOffAmended ==
    \A k \in Switches :
        SingleSwitchOff(k) =>
            /\ DOMAIN snapshot = Switches \ ({k} \cup AbsentState)
            /\ Len(warnings) = Cardinality({k} \cup AbsentState)
            /\ \A m \in {k} \cup AbsentState : Cardinality(WarningsFor(m)) = 1
            /\ (amp /\ g_loss_has_sd /\ d_loss_has_sd)
                    => /\ DOMAIN snapshot = Switches \ {k}
                       /\ warnings = <<Warning(k, "not_included")>>

\* C5 witness: mixed precision on, both losses with a state_dict, include_generator off.
C5_Witness ==
    /\ SingleSwitchOff("generator")
    /\ amp /\ g_loss_has_sd /\ d_loss_has_sd
    /\ gs_result = "returned"

\* C6: for every combination of switches, precision mode and loss functions get_state
\* returns without raising, and without additional_states every switch has exactly one
\* of two outcomes: its key is in the snapshot (iff the switch is on and the underlying
\* state exists), or exactly one warning is emitted for it.
C6_KeyOrWarning ==
    gs_args.called =>
        /\ gs_result = "returned"
        /\ ~gs_args.additional.given =>
            \A k \in Switches :
                /\ k \in DOMAIN snapshot <=> (k \in gs_args.flags /\ k \notin AbsentState)
                /\ Cardinality(WarningsFor(k)) = IF k \in DOMAIN snapshot THEN 0 ELSE 1

\* C6 witness: one call in which a switch is off, a scaler is asked for without mixed
\* precision, a loss has no state_dict and another switch is simply included.
C6_Witness ==
    /\ gs_args.called
    /\ ~gs_args.additional.given
    /\ ~amp /\ ~g_loss_has_sd
    /\ gs_args.flags = Switches \ {"engine"}
    /\ Len(warnings) = 4

\* C7: with mixed precision disabled a scaler switch that is on yields a snapshot
\* without the scaler's key and a warning for it, and get_state does not raise; a
\* trainer constructed with mixed precision disabled never has a scaler.
C7_ScalerWithoutAmp ==
    ~amp =>
        /\ g_scaler = NoScaler
        /\ d_scaler = NoScaler
        /\ gs_args.called =>
            /\ gs_result = "returned"
            /\ \A k \in {"generator_scaler", "discriminator_scaler"} \cap gs_args.flags :
                /\ k \notin DOMAIN snapshot
                /\ \E i \in 1..Len(warnings) : warnings[i] = Warning(k, "amp_disabled")

\* C7 witness: after a completed iteration without mixed precision, a snapshot taken
\* with both scaler switches on.
C7_Witness ==
    /\ ~amp
    /\ result = "returned"
    /\ gs_args.called
    /\ {"generator_scaler", "discriminator_scaler"} \subseteq gs_args.flags

\* C8: every key of additional_states maps to the caller's value in the snapshot, also
\* when it is a built-in key whose switch is on; the built-in keys that
\* additional_states does not name are present and valued as without it.
C8_AdditionalOverrides ==
    (gs_args.called /\ gs_args.additional.given) =>
        LET extra == gs_args.additional.states IN
        /\ \A k \in DOMAIN extra : k \in DOMAIN snapshot /\ snapshot[k] = extra[k]
        /\ DOMAIN snapshot \subseteq Switches \cup DOMAIN extra
        /\ \A k \in Switches \ DOMAIN extra :
            /\ k \in DOMAIN snapshot <=> (k \in gs_args.flags /\ k \notin AbsentState)
            /\ k \in DOMAIN snapshot => snapshot[k] = StateDict(k)

\* C8 witness: additional_states names "generator" while include_generator is on, and
\* an included built-in key that it does not name.
C8_Witness ==
    /\ gs_args.called
    /\ gs_args.additional.given
    /\ "generator" \in DOMAIN gs_args.additional.states
    /\ {"generator", "engine"} \subseteq gs_args.flags
    /\ snapshot["generator"] = CallerValue("generator")
    /\ snapshot["engine"] = StateDict("engine")

\* positions in the calls of a trace at which one of the named calls was made
CallPositions(t, names) == {i \in 1..Len(Calls(t)) : Calls(t)[i] \in names}

\* C9: a successful iteration steps the generator optimizer exactly once and the
\* discriminator optimizer exactly once, each directly without mixed precision and
\* through its scaler with it, the generator first; each step count has grown by
\* exactly one since the iteration began.
C9_OneStepEach ==
    result = "returned" =>
        LET g == CallPositions(trace, {"g_optimizer.step", "g_scaler.step"})
            d == CallPositions(trace, {"d_optimizer.step", "d_scaler.step"})
            direct == CallPositions(trace, {"g_optimizer.step", "d_optimizer.step"})
        IN /\ Cardinality(g) = 1
           /\ Cardinality(d) = 1
           /\ \A i \in g, j \in d : i < j
           /\ Cardinality(direct) = IF amp THEN 0 ELSE 2
           /\ g_steps = entry.g_steps + 1
           /\ d_steps = entry.d_steps + 1

\* C9 witness: two successful iterations in a row have stepped each optimizer twice.
C9_Witness ==
    /\ result = "returned"
    /\ n_calls = 2
    /\ g_steps = 2
    /\ d_steps = 2

\* C10: in the record returned by a successful iteration the combined generator loss
\* equals the reconstruction loss plus the generator adversarial loss, with mixed
\* precision disabled as well as enabled.
C10_CombinedLossIsSum ==
    result = "returned" =>
        /\ "loss" \in DOMAIN ret
        /\ ret["loss"] = ret["reconstruction_loss"] + ret["generator_loss"]

\* ------------------------------------------------------- the output record
\* the statements of a call at which the generator's forward pass has not yet stored
\* its result
BeforeFakes == {"prepare_batch", "g_train", "g_zero_grad", "g_forward"}

\* the generator's forward pass of the current call has stored its result
FakesStored == pc \notin BeforeFakes \cup {"idle"}

\* C11: from GENERATOR_FORWARD_COMPLETED onward, at every event and at return, the
\* prediction entry is the very same tensor as the fakes entry, and the fakes entry is
\* still the tensor the generator's forward pass of this call stored: the discriminator
\* phase does not replace it.
C11_PredIsFakes ==
    /\ FakesStored =>
          /\ {"fakes", "pred"} \subseteq DOMAIN output
          /\ output["pred"] = output["fakes"]
          /\ output["fakes"] = Tensor("g_inferer", "g_forward", n_calls)
    /\ result = "returned" =>
          /\ {"fakes", "pred"} \subseteq DOMAIN ret
          /\ ret["pred"] = ret["fakes"]
          /\ ret["fakes"] = Tensor("g_inferer", "g_forward", n_calls)

\* the second call has returned after the discriminator recomputed the fake logits
C11_Witness ==
    /\ result = "returned"
    /\ n_calls = 2
    /\ ret["fake_logits"] = Tensor("d_inferer", "d_fakes_forward", 2)
    /\ ret["pred"] = ret["fakes"]

\* the output record of the current call has been built from the prepared batch
RecordBuilt == pc \notin {"idle", "prepare_batch"}

\* C12: at every event and at return the reals entry is the very same tensor as the
\* image entry, namely the inputs that prepare_batch made of the batch of this call.
C12_RealsIsImage ==
    /\ RecordBuilt =>
          /\ {"image", "reals"} \subseteq DOMAIN output
          /\ output["reals"] = output["image"]
          /\ output["image"] = inputs
          /\ inputs = BatchTensor("inputs", n_calls, batchdata)
    /\ result = "returned" =>
          /\ {"image", "reals"} \subseteq DOMAIN ret
          /\ ret["reals"] = ret["image"]
          /\ ret["image"] = BatchTensor("inputs", n_calls, batchdata)

\* DISCRIMINATOR_REALS_FORWARD_COMPLETED is about to fire in the second call
C12_Witness ==
    /\ pc = "fire_d_reals"
    /\ n_calls = 2
    /\ output["reals"] = output["image"]
    /\ "real_logits" \in DOMAIN output

\* ------------------------------------------------------------ the two units
\* the statements of the generator sub-phase: from entry until GENERATOR_MODEL_COMPLETED
\* has fired
GeneratorPhase ==
    {"prepare_batch", "g_train", "g_zero_grad", "g_forward", "fire_g_forward",
     "gd_forward", "fire_gd_forward", "recon_loss", "fire_recon_loss", "g_loss",
     "fire_g_loss", "g_combine", "g_backward", "fire_g_backward", "g_step",
     "g_scaler_update", "fire_g_model"}

\* the statements of the discriminator sub-phase: after GENERATOR_MODEL_COMPLETED until
\* return
DiscriminatorPhase ==
    {"d_train", "d_zero_grad", "d_reals_forward", "fire_d_reals", "d_fakes_forward",
     "fire_d_fakes", "d_loss", "fire_d_loss", "d_backward", "fire_d_backward", "d_step",
     "d_scaler_update", "return"}

C14_GeneratorUntouched ==
    [][(pc \in DiscriminatorPhase) => UNCHANGED <<g_steps, g_grad, g_scaler>>]_vars

\* the discriminator has been stepped on its own loss in the second call, and the
\* generator's gradients hold the generator's loss alone
C14_Witness ==
    /\ pc = "return"
    /\ n_calls = 2
    /\ d_steps = entry.d_steps + 1
    /\ <<"discriminator", n_calls>> \in d_grad.acc
    /\ g_grad.acc = {<<"generator", n_calls>>}

\* ------------------------------------------------- events and optimizer steps
\* the places of a trace that hold one of the given entries
Position(t, entries) == {i \in 1..Len(t) : t[i] \in entries}

\* both kinds of entry occur in t, and every a comes before every b
AllBefore(t, a, b) ==
    /\ Position(t, a) # {}
    /\ Position(t, b) # {}
    /\ \A i \in Position(t, a), j \in Position(t, b) : i < j

\* the two ways the generator's optimizer is stepped (lines 241 and 250)
GStepCalls == {Call("g_scaler.step"), Call("g_optimizer.step")}

\* the two ways the discriminator's optimizer is stepped (lines 279 and 284)
DStepCalls == {Call("d_scaler.step"), Call("d_optimizer.step")}

\* C15: when GENERATOR_BACKWARD_COMPLETED fires, the backward pass of the combined loss
\* has run and the generator's optimizer has not been stepped in this call; when
\* GENERATOR_MODEL_COMPLETED fires, it has been stepped (and, with mixed precision, the
\* scaler updated); when DISCRIMINATOR_BACKWARD_COMPLETED fires (mixed precision only),
\* the discriminator's backward pass has run and its optimizer has not been stepped.
\* In a call that returned, each backward-completed event lies between the backward
\* pass and the optimizer step of its phase.
C15_BackwardEventBeforeStep ==
    /\ pc = "fire_g_backward" =>
          /\ Position(trace, {Call("g_backward")}) # {}
          /\ Position(trace, GStepCalls) = {}
          /\ <<"generator", n_calls>> \in g_grad.acc
          /\ g_steps = entry.g_steps
    /\ pc = "fire_g_model" =>
          /\ AllBefore(trace, {Event("GENERATOR_BACKWARD_COMPLETED")}, GStepCalls)
          /\ amp => Position(trace, {Call("g_scaler.update")}) # {}
          /\ g_steps = entry.g_steps + 1
    /\ pc = "fire_d_backward" =>
          /\ amp
          /\ Position(trace, {Call("d_backward")}) # {}
          /\ Position(trace, DStepCalls) = {}
          /\ <<"discriminator", n_calls>> \in d_grad.acc
          /\ d_steps = entry.d_steps
    /\ result = "returned" =>
          /\ AllBefore(trace, {Call("g_backward")}, {Event("GENERATOR_BACKWARD_COMPLETED")})
          /\ AllBefore(trace, {Event("GENERATOR_BACKWARD_COMPLETED")}, GStepCalls)
          /\ AllBefore(trace, GStepCalls, {Event("GENERATOR_MODEL_COMPLETED")})
          /\ amp =>
                /\ AllBefore(trace, {Call("g_scaler.update")},
                             {Event("GENERATOR_MODEL_COMPLETED")})
                /\ AllBefore(trace, {Call("d_backward")},
                             {Event("DISCRIMINATOR_BACKWARD_COMPLETED")})
                /\ AllBefore(trace, {Event("DISCRIMINATOR_BACKWARD_COMPLETED")}, DStepCalls)

\* DISCRIMINATOR_BACKWARD_COMPLETED is about to fire: the generator has been stepped in
\* this call, the discriminator has its gradients and has not been stepped
C15_Witness ==
    /\ pc = "fire_d_backward"
    /\ g_steps = entry.g_steps + 1
    /\ d_steps = entry.d_steps
    /\ Position(trace, {Event("GENERATOR_MODEL_COMPLETED")}) # {}

\* ------------------------------------------------------------------ failures
\* the entries the generator sub-phase stores in both precision modes
GeneratorKeys ==
    {"image", "label", "reals", "fakes", "pred", "fake_logits", "reconstruction_loss",
     "generator_loss"}

\* C16: a step by which a running call ends in a failure ends the call with nothing
\* returned and leaves the networks, optimizers, scalers, the output record and the
\* events and calls made so far exactly as the steps before it left them; when the
\* failing step lies in the discriminator sub-phase, the generator's optimizer has been
\* stepped once and the record holds what the generator sub-phase stored.  After the
\* failure nothing of that call runs any more: no event, no optimizer step, no rollback.
C16_FailurePropagates ==
    [][/\ (result = "running" /\ result' = "raised") =>
             /\ pc' = "idle"
             /\ ret' = EmptyDict
             /\ UNCHANGED <<config, nets, output, trace>>
             /\ g_steps' = entry.g_steps + Cardinality(Position(trace', GStepCalls))
             /\ d_steps' = entry.d_steps + Cardinality(Position(trace', DStepCalls))
             /\ pc \in DiscriminatorPhase =>
                   /\ g_steps' = entry.g_steps + 1
                   /\ GeneratorKeys \subseteq DOMAIN output'
       /\ (result = "raised" /\ n_calls' = n_calls) =>
             UNCHANGED <<config, nets, output, trace, result, pc>>]_vars

\* the discriminator's loss function failed: the generator has been stepped, the
\* discriminator has not, and the record holds both logits but no discriminator loss
C16_Witness ==
    /\ result = "raised"
    /\ g_steps = entry.g_steps + 1
    /\ d_steps = entry.d_steps
    /\ "real_logits" \in DOMAIN output
    /\ "discriminator_loss" \notin DOMAIN output
    /\ Events(trace)[Len(Events(trace))] = "DISCRIMINATOR_FAKES_FORWARD_COMPLETED"

\* ------------------------------------------------------------------ gradients
\* C17: right after the generator's gradients are zeroed they hold nothing (and are None
\* exactly as optim_set_to_none asks, once an earlier call has computed them); when the
\* generator's optimizer is stepped they hold the generator's loss of this call and
\* nothing else; right after the discriminator's gradients are zeroed they hold nothing
\* and are None exactly when optim_set_to_none is set; when the discriminator's optimizer
\* is stepped they hold the discriminator's loss of this call and nothing else.  In a
\* call that returned the order is: generator zeroing, generator backward, generator
\* step, discriminator zeroing, discriminator backward, discriminator step.
C17_OwnGradientsOnly ==
    /\ pc = "g_forward" =>
          /\ g_grad.acc = {}
          /\ optim_set_to_none => g_grad.isNone
          /\ (~optim_set_to_none /\ entry.g_steps > 0) => ~g_grad.isNone
    /\ pc = "g_step" => g_grad = [isNone |-> FALSE, acc |-> {<<"generator", n_calls>>}]
    /\ pc = "d_reals_forward" =>
          /\ d_grad.acc = {}
          /\ d_grad.isNone = optim_set_to_none
    /\ pc = "d_step" => d_grad = [isNone |-> FALSE, acc |-> {<<"discriminator", n_calls>>}]
    /\ result = "returned" =>
          /\ AllBefore(trace, {Call("g_optimizer.zero_grad")}, {Call("g_backward")})
          /\ AllBefore(trace, {Call("g_backward")}, GStepCalls)
          /\ AllBefore(trace, GStepCalls, {Call("d_network.zero_grad")})
          /\ AllBefore(trace, {Call("d_network.zero_grad")}, {Call("d_backward")})
          /\ AllBefore(trace, {Call("d_backward")}, DStepCalls)

\* the discriminator's optimizer is about to be stepped in the second call, after the
\* first call stepped both optimizers and this call's generator backward pass ran
C17_Witness ==
    /\ pc = "d_step"
    /\ n_calls = 2
    /\ entry.g_steps = 1
    /\ entry.d_steps = 1
    /\ g_grad.acc = {<<"generator", 2>>}
    /\ d_grad.acc = {<<"discriminator", 2>>}

\* ------------------------------------------------------------------ inference
\* the calls of the two inference strategies in a trace, in call order
InfererCalls(t) ==
    SelectSeq(t, LAMBDA e : e.kind = "call" /\ e.name \in {"g_inferer", "d_inferer"})

\* C18: a call that returned made exactly four inference calls, in this order: the
\* generator on the inputs, the discriminator on the fakes, the discriminator on the
\* detached reals, the discriminator on the detached fakes, the fakes being both times
\* the tensor the one generator call produced.  The fake logits in the record are those
\* of the generator sub-phase until the discriminator sub-phase recomputes them, and the
\* returned record holds the recomputed ones.
C18_InferenceCalls ==
    LET reals == BatchTensor("inputs", n_calls, batchdata)
        fakes == Tensor("g_inferer", "g_forward", n_calls)
    IN  /\ result = "returned" =>
              /\ InfererCalls(trace) =
                    <<Infer("g_inferer", "g_network", reals, FALSE),
                      Infer("d_inferer", "d_network", fakes, FALSE),
                      Infer("d_inferer", "d_network", reals, TRUE),
                      Infer("d_inferer", "d_network", fakes, TRUE)>>
              /\ ret["fakes"] = fakes
              /\ ret["fake_logits"] = Tensor("d_inferer", "d_fakes_forward", n_calls)
        /\ pc \in {"fire_gd_forward", "fire_g_model", "fire_d_reals"} =>
              output["fake_logits"] = Tensor("d_inferer", "gd_forward", n_calls)
        /\ pc \in {"fire_d_fakes", "return"} =>
              output["fake_logits"] = Tensor("d_inferer", "d_fakes_forward", n_calls)

\* the second call has returned: the generator was stepped in it before the
\* discriminator saw the fakes again
C18_Witness ==
    /\ result = "returned"
    /\ n_calls = 2
    /\ g_steps = entry.g_steps + 1
    /\ Len(InfererCalls(trace)) = 4
    /\ AllBefore(trace, GStepCalls,
                 {Infer("d_inferer", "d_network", Tensor("g_inferer", "g_forward", 2), TRUE)})

\* ------------------------------------------------------- records at the events
\* the entries the claim expects in the output record when the event fired at
\* statement p fires: what the event announces and everything written before it
Announced(p) ==
    CASE p = "fire_g_forward" -> {"image", "label", "reals", "fakes", "pred"}
      [] p = "fire_gd_forward" -> {"image", "label", "reals", "fakes", "pred", "fake_logits"}
      [] p = "fire_recon_loss" -> GeneratorKeys \ {"generator_loss"}
      [] p = "fire_g_loss" -> GeneratorKeys
      [] p \in {"fire_g_backward", "fire_g_model"} -> GeneratorKeys \cup {"loss"}
      [] p \in {"fire_d_reals", "fire_d_fakes"} -> GeneratorKeys \cup {"loss", "real_logits"}
      [] p \in {"fire_d_loss", "fire_d_backward"} ->
            GeneratorKeys \cup {"loss", "real_logits", "discriminator_loss"}
      [] OTHER -> {}

\* C19: whenever an event is about to fire, the output record holds the entry the event
\* announces and every entry written earlier in the call; from
\* GENERATOR_BACKWARD_COMPLETED on this includes the combined generator loss, the sum of
\* the reconstruction loss and the generator loss, and at
\* DISCRIMINATOR_FAKES_FORWARD_COMPLETED the fake logits are the recomputed ones.
C19_RecordHoldsAnnounced ==
    /\ Announced(pc) \subseteq DOMAIN output
    /\ pc \in {"fire_g_backward", "fire_g_model"} =>
          output["loss"] = output["reconstruction_loss"] + output["generator_loss"]
    /\ pc = "fire_d_fakes" =>
          output["fake_logits"] = Tensor("d_inferer", "d_fakes_forward", n_calls)

\* ------------------------------------------------------------- a fresh record
\* C20: when the first event of a call is about to fire, the output record holds the
\* image, label and reals of this call's batch, the fakes and prediction of this call,
\* and nothing else: no loss and no logits of an earlier call.  Until then the record
\* holds only the three batch entries.  The record a call returns is the record in
\* engine.state.output.
C20_FreshRecord ==
    /\ pc \in {"g_train", "g_zero_grad", "g_forward"} =>
          DOMAIN output = {"image", "label", "reals"}
    /\ pc = "fire_g_forward" =>
          /\ DOMAIN output = {"image", "label", "reals", "fakes", "pred"}
          /\ output["image"] = BatchTensor("inputs", n_calls, batchdata)
          /\ output["label"] = BatchTensor("targets", n_calls, batchdata)
          /\ output["reals"] = BatchTensor("inputs", n_calls, batchdata)
          /\ output["fakes"] = Tensor("g_inferer", "g_forward", n_calls)
          /\ output["pred"] = Tensor("g_inferer", "g_forward", n_calls)
    /\ result = "returned" => ret = output

\* the first event of the second call is about to fire, after the first call returned a
\* record with the discriminator's entries
C20_Witness ==
    /\ pc = "fire_g_forward"
    /\ n_calls = 2
    /\ entry.d_steps = 1
    /\ "discriminator_loss" \notin DOMAIN output

====
